---------------------------- MODULE Spec2Model ----------------------------
(***************************************************************************)
(* Model of the ffmpeg-api /process pipeline.                              *)
(*                                                                         *)
(*   src/app/main.py  FastAPI handler process_file_with_ffmpeg: workspace  *)
(*                    (mkdtemp) -> save upload -> output name -> shlex     *)
(*                    split -> subprocess.run -> exists check ->           *)
(*                    FileResponse, cleanup through BackgroundTasks.       *)
(*                                                                         *)
(* Text is modelled as sequences of one-character strings, so that the     *)
(* per-character sanitizer, os.path.splitext, os.path.join and shlex.split *)
(* are computed the way the library computes them.  A file system path is  *)
(* such a text; the file it denotes is found by Walk, which resolves the   *)
(* components against the directories that exist.                          *)
(***************************************************************************)
EXTENDS Integers, Sequences, FiniteSets, TLC

(***************************************************************************)
(* Bounds of the model.                                                    *)
(***************************************************************************)
MaxNameLen == 3     \* longest raw name fed to the pure-function checks
NumReq == 2         \* concurrent requests in SpecConc
MaxChunks == 2      \* chunks a FileResponse body is sent in
MaxReqLen == 1      \* longest requested output name fed to the pure-function checks

(***************************************************************************)
(* Characters.                                                             *)
(***************************************************************************)
Alnum ==
    { "a", "b", "c", "d", "e", "f", "g", "h", "i", "j", "k", "l", "m",
      "n", "o", "p", "q", "r", "s", "t", "u", "v", "w", "x", "y", "z",
      "0", "1", "2", "3", "4", "5", "6", "7", "8", "9" }

\* str.isalnum() of one character
isalnum(c) == c \in Alnum

\* str.isspace() of a whole string: non-empty and every character white
isspace(s) == Len(s) > 0 /\ \A i \in 1..Len(s) : s[i] = " "

\* the characters a client can put into a name; "/" and " " are the
\* separators the sanitizer is there for
NameChars == { "a", ".", "/", " ", "_" }

RECURSIVE SeqsOfLen(_, _)
SeqsOfLen(S, n) ==
    IF n = 0 THEN { <<>> }
    ELSE { Append(s, c) : s \in SeqsOfLen(S, n - 1), c \in S }

SeqsUpTo(S, n) == UNION { SeqsOfLen(S, k) : k \in 0..n }

\* s contains t as a contiguous subsequence
HasInfix(s, t) ==
    \E i \in 0..(Len(s) - Len(t)) :
        \A j \in 1..Len(t) : s[i + j] = t[j]

StartsWith(s, t) ==
    Len(s) >= Len(t) /\ \A j \in 1..Len(t) : s[j] = t[j]

\* str.rfind(c): the last index of c in s, 0 when absent (Python: -1)
RFind(s, c) ==
    IF \E i \in 1..Len(s) : s[i] = c
    THEN CHOOSE i \in 1..Len(s) :
            s[i] = c /\ \A j \in (i + 1)..Len(s) : s[j] # c
    ELSE 0

(***************************************************************************)
(* Name Sanitizer.                                                         *)
(***************************************************************************)
\* mutant: a separator becomes a space, as in other sanitizers, before the
\* allow-list is applied
SanitizeCharsSeparatorToSpace(name) ==
    [ i \in 1..Len(name) |->
        IF isalnum(name[i]) \/ name[i] \in { ".", "_", "-" }
        THEN name[i]
        ELSE IF name[i] = "/" THEN " " ELSE "_" ]

\* "".join(c if c.isalnum() or c in ['.', '_', '-'] else '_' for c in name)
SanitizeChars(name) ==
    [ i \in 1..Len(name) |->
        IF isalnum(name[i]) \/ name[i] \in { ".", "_", "-" }
        THEN name[i] ELSE "_" ]

\* mutant: the extension starts at the last dot of the last component even
\* when only dots precede it
splitextAnyLastDot(p) ==
    LET sepIndex == RFind(p, "/")
        dotIndex == RFind(p, ".")
    IN  IF dotIndex > sepIndex
        THEN [ base |-> SubSeq(p, 1, dotIndex - 1),
               ext  |-> SubSeq(p, dotIndex, Len(p)) ]
        ELSE [ base |-> p, ext |-> <<>> ]

\* os.path.splitext (genericpath._splitext with sep "/"): the extension
\* starts at the last dot of the last component, unless only dots precede
\* it in that component
splitext(p) ==
    LET sepIndex == RFind(p, "/")
        dotIndex == RFind(p, ".")
    IN  IF dotIndex > sepIndex
           /\ \E k \in (sepIndex + 1)..(dotIndex - 1) : p[k] # "."
        THEN [ base |-> SubSeq(p, 1, dotIndex - 1),
               ext  |-> SubSeq(p, dotIndex, Len(p)) ]
        ELSE [ base |-> p, ext |-> <<>> ]

Transformed == << "_", "t", "r", "a", "n", "s", "f", "o", "r", "m", "e", "d" >>

ValueErrorName == << "ValueError" >>

\* generate_output_filename; a raised ValueError is the result
\* [ok |-> FALSE]
generate_output_filename(input_filename, requested_filename) ==
    IF requested_filename # <<>>
    THEN LET sanitized_name == SanitizeChars(requested_filename)
         IN  IF sanitized_name = <<>>
             THEN [ ok |-> FALSE, name |-> ValueErrorName ]
             ELSE [ ok |-> TRUE, name |-> sanitized_name ]
    ELSE LET se == splitext(input_filename)
             be == IF se.base = <<>> /\ se.ext # <<>>
                   THEN [ base |-> se.ext, ext |-> <<>> ]
                   ELSE IF ~ \E i \in 1..Len(input_filename) :
                                input_filename[i] = "."
                        THEN [ base |-> input_filename, ext |-> <<>> ]
                        ELSE se
         IN  [ ok |-> TRUE, name |-> be.base \o Transformed \o be.ext ]

(***************************************************************************)
(* Command Builder: shlex.split(commands), i.e. shlex in POSIX mode with   *)
(* whitespace_split and no comment characters.  The lexer states are the   *)
(* ones of shlex.read_token: "ws" (' '), "word" ('a'), a quote character,  *)
(* and "esc" (the escape character, with escapedstate est).                *)
(***************************************************************************)
Quotes == { "'", "\"" }
EscapeChar == "\\"
EscapedQuotes == { "\"" }

NoClosingQuotation == "No closing quotation"
NoEscapedCharacter == "No escaped character"

RECURSIVE Lex(_, _, _, _, _, _, _)
Lex(s, i, st, est, tok, quoted, out) ==
    LET eof == i > Len(s)
        c == IF eof THEN "" ELSE s[i]
    IN  IF st = "ws"
        THEN IF eof THEN [ ok |-> TRUE, args |-> out, err |-> "" ]
             ELSE IF c = " " THEN Lex(s, i + 1, "ws", est, tok, quoted, out)
             ELSE IF c = EscapeChar
                  THEN Lex(s, i + 1, "esc", "word", tok, quoted, out)
             ELSE IF c \in Quotes
                  THEN Lex(s, i + 1, c, est, tok, quoted, out)
             ELSE Lex(s, i + 1, "word", est, << c >>, quoted, out)
        ELSE IF st = "word"
        THEN IF eof
             THEN [ ok |-> TRUE,
                    args |-> IF tok # <<>> \/ quoted
                             THEN Append(out, tok) ELSE out,
                    err |-> "" ]
             ELSE IF c = " "
                  THEN IF tok # <<>> \/ quoted
                       THEN Lex(s, i + 1, "ws", est, <<>>, FALSE,
                                Append(out, tok))
                       ELSE Lex(s, i + 1, "ws", est, tok, quoted, out)
             ELSE IF c \in Quotes
                  THEN Lex(s, i + 1, c, est, tok, quoted, out)
             ELSE IF c = EscapeChar
                  THEN Lex(s, i + 1, "esc", "word", tok, quoted, out)
             ELSE Lex(s, i + 1, "word", est, Append(tok, c), quoted, out)
        ELSE IF st \in Quotes
        THEN IF eof
             THEN [ ok |-> FALSE, args |-> <<>>, err |-> NoClosingQuotation ]
             ELSE IF c = st
                  THEN Lex(s, i + 1, "word", est, tok, TRUE, out)
             ELSE IF c = EscapeChar /\ st \in EscapedQuotes
                  THEN Lex(s, i + 1, "esc", st, tok, TRUE, out)
             ELSE Lex(s, i + 1, st, est, Append(tok, c), TRUE, out)
        ELSE \* st = "esc"
             IF eof
             THEN [ ok |-> FALSE, args |-> <<>>, err |-> NoEscapedCharacter ]
             ELSE LET kept == IF est \in Quotes /\ c # EscapeChar /\ c # est
                              THEN Append(tok, EscapeChar) ELSE tok
                  IN  Lex(s, i + 1, est, est, Append(kept, c), quoted, out)

shlex_split(s) == Lex(s, 1, "ws", "word", <<>>, FALSE, <<>>)

CommandsEmpty == "FFmpeg commands cannot be empty."

\* mutant: the ValueError is swallowed and the tool gets no flags
ParseCommandsSwallowError(commands_) ==
    IF commands_ = <<>> \/ isspace(commands_) \/ ~ shlex_split(commands_).ok
    THEN [ ok |-> TRUE, args |-> <<>>, err |-> "" ]
    ELSE shlex_split(commands_)

\* lines 116-119: the emptiness test, then shlex.split; [ok |-> FALSE] is
\* the ValueError of either
ParseCommands(commands_) ==
    IF commands_ = <<>> \/ isspace(commands_)
    THEN [ ok |-> FALSE, args |-> <<>>, err |-> CommandsEmpty ]
    ELSE shlex_split(commands_)

(***************************************************************************)
(* Paths and the file system.                                              *)
(***************************************************************************)
\* os.path.join(a, b) of posixpath
path_join(a, b) ==
    IF StartsWith(b, << "/" >>) THEN b
    ELSE IF a = <<>> \/ a[Len(a)] = "/" THEN a \o b
    ELSE a \o << "/" >> \o b

\* the components of a path, split at "/": the n-th lies between the
\* (n-1)-th and the n-th cut, the cuts being the separators and both ends
Components(p) ==
    LET cuts == { 0, Len(p) + 1 } \cup { i \in 1..Len(p) : p[i] = "/" }
        nth(n) == CHOOSE x \in cuts : Cardinality({ y \in cuts : y < x }) = n
    IN  [ n \in 1..(Cardinality(cuts) - 1) |->
            SubSeq(p, nth(n - 1) + 1, nth(n) - 1) ]

DotDot == << ".", "." >>
Dot == << "." >>

\* Path resolution as the kernel does it: walk the components from the
\* root, every directory passed through must exist.  The result is the
\* sequence of component names of the file or directory denoted.
RECURSIVE WalkFrom(_, _, _)
WalkFrom(at, comps, ds) ==
    IF comps = <<>> THEN [ ok |-> TRUE, at |-> at ]
    ELSE IF at \notin ds THEN [ ok |-> FALSE, at |-> at ]
    ELSE LET c == Head(comps)
             next == IF c = <<>> \/ c = Dot THEN at
                     ELSE IF c = DotDot
                          THEN IF at = <<>> THEN at
                               ELSE SubSeq(at, 1, Len(at) - 1)
                     ELSE Append(at, c)
         IN  WalkFrom(next, Tail(comps), ds)

\* the working directory of the server process
Cwd == << << "s", "r", "v" >> >>

\* an absolute path is walked from the root, another from the working
\* directory; the components are split once
Walk(p, ds) ==
    LET from == IF StartsWith(p, << "/" >>) THEN <<>> ELSE Cwd
    IN  CHOOSE w \in { WalkFrom(from, comps, ds) :
                          comps \in { Components(p) } } : TRUE

Parent(at) == IF at = <<>> THEN at ELSE SubSeq(at, 1, Len(at) - 1)

IsUnder(at, dir) == Len(at) >= Len(dir) /\ SubSeq(at, 1, Len(dir)) = dir

\* os.path.exists(p)
path_exists(p, ds, fs) ==
    LET w == Walk(p, ds)
    IN  w.ok /\ (w.at \in ds \/ w.at \in DOMAIN fs)

\* open(p, "wb") succeeds: the parent is a directory and p is not one
can_write(p, ds) ==
    LET w == Walk(p, ds)
    IN  w.ok /\ w.at \notin ds /\ Parent(w.at) \in ds

\* the file system after writing data to p
write_file(p, data, ds, fs) ==
    LET at == Walk(p, ds).at
    IN  [ q \in (DOMAIN fs) \cup { at } |-> IF q = at THEN data ELSE fs[q] ]

TmpRoot == << "/", "t", "m", "p" >>
TmpRootAt == << << "t", "m", "p" >> >>

(***************************************************************************)
(* State.  Every per-request variable is a function of the request.        *)
(***************************************************************************)
VARIABLES
    pc,                    \* where each request is
    lost,                  \* "" while the client is connected, else where it left
    file_filename,         \* UploadFile.filename (<<>>: None or "")
    output_filename,       \* form field output_filename (<<>>: None or "")
    commands,              \* form field commands
    temp_dir_path,         \* <<>> is None
    background_tasks,      \* arguments of the cleanup_temp_dir tasks added
    input_file_path,
    final_output_filename,
    output_file_path,
    command_args,
    ffmpeg_command,        \* argument vector of the last subprocess.run
    run_calls,             \* number of subprocess.run calls
    process,               \* how the tool ended: returncode, stdout, stderr
    raised,                \* the exception first raised inside the try
    response,              \* what the handler hands to the framework
    body,                  \* file content the FileResponse reads
    sent,                  \* body chunks sent so far
    cleanup_runs,          \* executions of cleanup_temp_dir
    dirs,                  \* directories on disk
    files,                 \* regular files on disk, with their content
    pure_in, pure_out, pure_pc,  \* pure-function checks
    pure_again,                  \* the function applied to its own result
    video                        \* the request of src/app.py's process_video

reqVars == << pc, lost, file_filename, output_filename, commands,
              temp_dir_path, background_tasks, input_file_path,
              final_output_filename, output_file_path, command_args,
              ffmpeg_command, run_calls, process, raised, response, body,
              sent, cleanup_runs >>
diskVars == << dirs, files >>
pureVars == << pure_in, pure_out, pure_pc, pure_again >>
vars == << reqVars, diskVars, pureVars, video >>

Reqs == 1..NumReq

(***************************************************************************)
(* Values.                                                                 *)
(***************************************************************************)
HTTP_400_BAD_REQUEST == 400
HTTP_500_INTERNAL_SERVER_ERROR == 500
HTTP_200_OK == 200

FFMPEG_PATH == << "f", "f", "m", "p", "e", "g" >>
InputFlag == << "-", "i" >>
DefaultInputName == << "i", "n", "p", "u", "t", "_", "f", "i", "l", "e" >>

\* the random part of a mkdtemp name: one opaque symbol no client can type
WsNames == { "ffmpeg_api_" \o ToString(k) : k \in 1..(NumReq + 1) }

\* no tool has terminated for the request (yet)
NoProcess == [ kind |-> "none", returncode |-> 0, stdout |-> "", stderr |-> "" ]
NoException == [ status |-> 0, detail |-> <<>> ]
NoResponse == [ kind |-> "none", status |-> 0, detail |-> <<>>,
                path |-> <<>>, filename |-> <<>> ]
NoData == [ of |-> 0, by |-> 0 ]

\* the bytes request r uploaded
UploadData(r) == [ of |-> r, by |-> 0 ]
\* what the tool run by request r makes of the input file's bytes
ToolData(r, in) == [ of |-> in.of, by |-> r ]

\* captured output texts of the tool
Texts == { "", "Unrecognized option" }
StdoutTexts == { "", "ffmpeg version" }
NoOutputCaptured == "No output captured."

(***************************************************************************)
(* Pieces of the handler.                                                  *)
(***************************************************************************)
\* mutant: the task is added a second time, as the catch-all branch
\* considers doing
AddTaskTwice(tasks, path) == Append(Append(tasks, path), path)

\* line 82: background_tasks.add_task(cleanup_temp_dir, temp_dir_path)
AddTask(tasks, path) == Append(tasks, path)

\* lines 86-88; uuid4 names the file when the sanitized name is empty
SafeInputBasename(filename) ==
    LET input_filename_orig ==
            IF filename = <<>> THEN DefaultInputName ELSE filename
        safe == SanitizeChars(input_filename_orig)
    IN  IF safe = <<>> THEN << "i", "n", "p", "u", "t", "_", "uuid4" >>
        ELSE safe

\* mutant: the output path is put before the user's arguments
BuildCommandOutputFirst(in, args, out) ==
    << FFMPEG_PATH, InputFlag, in, out >> \o args

\* lines 127-132
BuildCommand(in, args, out) ==
    << FFMPEG_PATH, InputFlag, in >> \o args \o << out >>

\* mutant: stdout is preferred to stderr
ErrorDetailStdoutFirst(returncode, stdout, stderr) ==
    << "FFmpeg error (code ", ToString(returncode), "): ",
       IF stdout # "" THEN stdout
       ELSE IF stderr # "" THEN stderr ELSE NoOutputCaptured >>

\* line 154: e.stderr or e.stdout or 'No output captured.'
ErrorDetail(returncode, stdout, stderr) ==
    << "FFmpeg error (code ", ToString(returncode), "): ",
       IF stderr # "" THEN stderr
       ELSE IF stdout # "" THEN stdout ELSE NoOutputCaptured >>

\* str(e) of an HTTPException: "<status_code>: <detail>"; of any other
\* exception (status 0 here) its message
StrOfException(e) ==
    IF e.status = 0 THEN e.detail
    ELSE << ToString(e.status), ": " >> \o e.detail

\* lines 193-208: "except Exception" catches everything raised inside the
\* try, the HTTPExceptions of the handler included, and raises a 500
OuterExcept(e) ==
    [ kind |-> "error", status |-> HTTP_500_INTERNAL_SERVER_ERROR,
      detail |-> << "An internal server error occurred: " >>
                 \o StrOfException(e),
      path |-> <<>>, filename |-> <<>> ]

\* lines 187-192
FileResponse(path, filename) ==
    [ kind |-> "file", status |-> HTTP_200_OK, detail |-> <<>>,
      path |-> path, filename |-> filename ]

\* lines 31-41: shutil.rmtree when the path exists; rmtree of something
\* that is not a directory raises, and the exception is swallowed
cleanup_temp_dir(path, ds, fs) ==
    LET w == Walk(path, ds)
    IN  IF path_exists(path, ds, fs) /\ w.at \in ds
        THEN [ dirs  |-> { d \in ds : ~ IsUnder(d, w.at) },
               files |-> [ q \in { f \in DOMAIN fs : ~ IsUnder(f, w.at) }
                           |-> fs[q] ] ]
        ELSE [ dirs |-> ds, files |-> fs ]

\* BackgroundTasks.__call__: the tasks run one after the other
RECURSIVE RunTasks(_, _, _)
RunTasks(tasks, ds, fs) ==
    IF tasks = <<>> THEN [ dirs |-> ds, files |-> fs ]
    ELSE LET after == cleanup_temp_dir(Head(tasks), ds, fs)
         IN  RunTasks(Tail(tasks), after.dirs, after.files)

(***************************************************************************)
(* Inputs of the requests.                                                 *)
(***************************************************************************)
\* upload names: none, plain, with a space, traversal, absolute, a lone ".."
UploadNames ==
    { <<>>, << "a", ".", "b" >>, << "a", " ", "b" >>,
      << ".", ".", "/", "a", ".", "b" >>, << "/", "a", ".", "b" >>,
      << ".", "." >> }

\* requested output names: none, the upload's own name, with a separator,
\* a lone ".."
OutputNames ==
    { <<>>, << "a", ".", "b" >>, << "c", "/", "d" >>, << ".", "." >> }

\* flag strings: empty, blank, one flag, a quoted flag with a space, an
\* input flag, an unclosed quote, a dangling escape
CommandStrings ==
    { <<>>, << " " >>, << "-", "a" >>, << "'", "a", " ", "b", "'" >>,
      << "-", "i", " ", "/", "x" >>, << "\"", "a" >>, << "a", "\\" >> }

\* the requests of the concurrent specification
ConcUploadNames == { << "a", ".", "b" >>, << ".", ".", "/", "a", ".", "b" >> }
ConcOutputNames == { <<>>, << "a", ".", "c" >> }
ConcCommandStrings == { << "-", "a" >> }

(***************************************************************************)
(* src/app.py: the values and pure functions of process_video.             *)
(***************************************************************************)
\* line 25; the folder's name and the tool's are one symbol each, of
\* letters only
UPLOAD_FOLDER == << "uploads" >>
\* the directory os.makedirs(UPLOAD_FOLDER) creates at import, in the
\* working directory
UploadsAt == Append(Cwd, UPLOAD_FOLDER)

\* str(uuid.uuid4()): one opaque symbol of hexadecimal digits and "-"
uuid4(k) == "uuid4-" \o ToString(k)
Uuids == { uuid4(1), uuid4(2) }

\* werkzeug.utils.secure_filename: "/" becomes a blank, runs of blanks
\* become one "_" (none at the ends), every character outside
\* [A-Za-z0-9_.-] is dropped, and "." and "_" are stripped from both ends
secure_filename(filename) ==
    LET blanked == [ i \in 1..Len(filename) |->
                       IF filename[i] = "/" THEN " " ELSE filename[i] ]
        n == Len(blanked)
        joined == [ i \in 1..n |->
                      IF blanked[i] # " " THEN blanked[i]
                      ELSE IF /\ i > 1 /\ blanked[i - 1] # " "
                              /\ \E j \in (i + 1)..n : blanked[j] # " "
                           THEN "_" ELSE "" ]
        allowed(c) == isalnum(c) \/ c \in { "_", ".", "-" } \/ c \in Uuids
        kept == SelectSeq(joined, allowed)
        inner == { i \in 1..Len(kept) : kept[i] \notin { ".", "_" } }
    IN  IF inner = { } THEN <<>>
        ELSE SubSeq(kept, CHOOSE i \in inner : \A j \in inner : i <= j,
                          CHOOSE i \in inner : \A j \in inner : i >= j)

\* line 117: f'ffmpeg -i "{input_path}" {ffmpeg_flags} "{output_path}"'
base_command(input_path, ffmpeg_flags, output_path) ==
    << "ffmpeg", " ", "-", "i", " ", "\"" >>
    \o input_path \o << "\"", " " >> \o ffmpeg_flags \o << " ", "\"" >>
    \o output_path \o << "\"" >>

NoVideoResponse ==
    [ status |-> 0, error |-> "", details |-> "", file |-> NoData,
      download_name |-> <<>> ]

\* jsonify({'error': error}), status  and, at line 131, with 'details'
jsonify(error, details, status) ==
    [ status |-> status, error |-> error, details |-> details,
      file |-> NoData, download_name |-> <<>> ]

\* the request before it arrives
NoVideo ==
    [ pc |-> "off", has_file |-> FALSE, filename |-> <<>>,
      ffmpeg_flags |-> <<>>, output_filename |-> <<>>,
      input_path |-> <<>>, output_path |-> <<>>, temp_files |-> <<>>,
      command |-> <<>>, run_calls |-> 0, process |-> NoProcess,
      response |-> NoVideoResponse, removed |-> <<>>, remove_errors |-> 0,
      received |-> NoVideoResponse ]

NoFileProvided == "No file provided"
NoFileSelected == "No file selected"
NoFlagsProvided == "No FFmpeg flags provided"
NoOutputFilenameProvided == "No output filename provided"

\* mutant: the output filename is not required
EarlyReturnWithoutOutputName(v) ==
    IF ~ v.has_file THEN NoFileProvided
    ELSE IF v.filename = <<>> THEN NoFileSelected
    ELSE IF v.ffmpeg_flags = <<>> THEN NoFlagsProvided
    ELSE ""

\* lines 78-97: the error of the first failing test, "" when all pass
EarlyReturn(v) ==
    IF ~ v.has_file THEN NoFileProvided
    ELSE IF v.filename = <<>> THEN NoFileSelected
    ELSE IF v.ffmpeg_flags = <<>> THEN NoFlagsProvided
    ELSE IF v.output_filename = <<>> THEN NoOutputFilenameProvided
    ELSE ""

\* mutant: only the input path is put on the cleanup list
RegisterInputOnly(temp_files, input_path, output_path) ==
    Append(temp_files, input_path)

\* line 110: temp_files.extend([input_path, output_path])
Register(temp_files, input_path, output_path) ==
    temp_files \o << input_path, output_path >>

(***************************************************************************)
(* Init.                                                                   *)
(***************************************************************************)
InitReqs ==
    /\ pc = [ r \in Reqs |-> "idle" ]
    /\ lost = [ r \in Reqs |-> "" ]
    /\ file_filename = [ r \in Reqs |-> <<>> ]
    /\ output_filename = [ r \in Reqs |-> <<>> ]
    /\ commands = [ r \in Reqs |-> <<>> ]
    /\ temp_dir_path = [ r \in Reqs |-> <<>> ]
    /\ background_tasks = [ r \in Reqs |-> <<>> ]
    /\ input_file_path = [ r \in Reqs |-> <<>> ]
    /\ final_output_filename = [ r \in Reqs |-> <<>> ]
    /\ output_file_path = [ r \in Reqs |-> <<>> ]
    /\ command_args = [ r \in Reqs |-> <<>> ]
    /\ ffmpeg_command = [ r \in Reqs |-> <<>> ]
    /\ run_calls = [ r \in Reqs |-> 0 ]
    /\ process = [ r \in Reqs |-> NoProcess ]
    /\ raised = [ r \in Reqs |-> NoException ]
    /\ response = [ r \in Reqs |-> NoResponse ]
    /\ body = [ r \in Reqs |-> NoData ]
    /\ sent = [ r \in Reqs |-> 0 ]
    /\ cleanup_runs = [ r \in Reqs |-> 0 ]

InitDisk ==
    /\ dirs = { <<>>, TmpRootAt, Cwd }
    /\ files = << >>

InitPureOff ==
    /\ pure_in = <<>>
    /\ pure_out = <<>>
    /\ pure_pc = "off"
    /\ pure_again = <<>>

\* no request has reached process_video
InitVideoOff == video = NoVideo

Init == InitReqs /\ InitDisk /\ InitPureOff /\ InitVideoOff

(***************************************************************************)
(* The request, up to the call of the handler.                             *)
(***************************************************************************)
\* a request arrives; its form is being received
Arrive(r, U, O, K) ==
    /\ pc[r] = "idle"
    /\ \E f \in U, o \in O, c \in K :
        /\ file_filename' = [ file_filename EXCEPT ![r] = f ]
        /\ output_filename' = [ output_filename EXCEPT ![r] = o ]
        /\ commands' = [ commands EXCEPT ![r] = c ]
    /\ pc' = [ pc EXCEPT ![r] = "receiving" ]
    /\ UNCHANGED << lost, temp_dir_path, background_tasks,
                    input_file_path, final_output_filename, output_file_path,
                    command_args, ffmpeg_command, run_calls, process, raised,
                    response, body, sent, cleanup_runs, diskVars, pureVars, video >>

\* the client goes away, at any time before the request is over
Disconnect(r) ==
    /\ pc[r] \notin { "idle", "done" }
    /\ lost[r] = ""
    /\ lost' = [ lost EXCEPT ![r] = pc[r] ]
    /\ UNCHANGED << pc, file_filename, output_filename, commands,
                    temp_dir_path, background_tasks, input_file_path,
                    final_output_filename, output_file_path, command_args,
                    ffmpeg_command, run_calls, process, raised, response,
                    body, sent, cleanup_runs, diskVars, pureVars, video >>

\* the form was not received whole: the handler is never called
Abort(r) ==
    /\ pc[r] = "receiving"
    /\ lost[r] # ""
    /\ pc' = [ pc EXCEPT ![r] = "done" ]
    /\ UNCHANGED << lost, file_filename, output_filename, commands,
                    temp_dir_path, background_tasks, input_file_path,
                    final_output_filename, output_file_path, command_args,
                    ffmpeg_command, run_calls, process, raised, response,
                    body, sent, cleanup_runs, diskVars, pureVars, video >>

\* the handler is left by an exception e raised inside its try
Raise(r, e) ==
    /\ raised' = [ raised EXCEPT ![r] = e ]
    /\ response' = [ response EXCEPT ![r] = OuterExcept(e) ]
    /\ pc' = [ pc EXCEPT ![r] = "raised" ]

(***************************************************************************)
(* The handler process_file_with_ffmpeg, one action per numbered section.  *)
(***************************************************************************)
MkdtempFailed == [ status |-> 0, detail |-> << "mkdtemp: OSError" >> ]

\* section 1, lines 74-82: mkdtemp makes a directory under a name that
\* does not exist yet, and the cleanup task is added
CreateTempDir(r) ==
    /\ pc[r] = "receiving"
    /\ lost[r] = ""
    /\ \E ok \in BOOLEAN, n \in WsNames :
        LET path == TmpRoot \o << "/", n >>
            at == Walk(path, dirs).at
        IN  /\ at \notin dirs /\ at \notin DOMAIN files
            /\ IF ok
               THEN /\ dirs' = dirs \cup { at }
                    /\ temp_dir_path' = [ temp_dir_path EXCEPT ![r] = path ]
                    /\ background_tasks' =
                         [ background_tasks EXCEPT
                             ![r] = AddTask(background_tasks[r], path) ]
                    /\ pc' = [ pc EXCEPT ![r] = "save" ]
                    /\ UNCHANGED << raised, response >>
               ELSE /\ Raise(r, MkdtempFailed)
                    /\ UNCHANGED << dirs, temp_dir_path, background_tasks >>
    /\ UNCHANGED << lost, file_filename, output_filename, commands,
                    input_file_path, final_output_filename, output_file_path,
                    command_args, ffmpeg_command, run_calls, process, body,
                    sent, cleanup_runs, files, pureVars, video >>

SaveFailed ==
    [ status |-> HTTP_500_INTERNAL_SERVER_ERROR,
      detail |-> << "Could not save uploaded file: ", "OSError" >> ]

\* section 2, lines 86-102: the upload is copied to the sanitized name in
\* the workspace; open() or the copy may fail
SaveUpload(r) ==
    /\ pc[r] = "save"
    /\ LET path == path_join(temp_dir_path[r],
                             SafeInputBasename(file_filename[r]))
       IN  /\ input_file_path' = [ input_file_path EXCEPT ![r] = path ]
           /\ \E ioerror \in BOOLEAN :
                IF can_write(path, dirs) /\ ~ ioerror
                THEN /\ files' = write_file(path, UploadData(r), dirs, files)
                     /\ pc' = [ pc EXCEPT ![r] = "name" ]
                     /\ UNCHANGED << raised, response >>
                ELSE /\ Raise(r, SaveFailed)
                     /\ UNCHANGED files
    /\ UNCHANGED << lost, file_filename, output_filename, commands,
                    temp_dir_path, background_tasks, final_output_filename,
                    output_file_path, command_args, ffmpeg_command, run_calls,
                    process, body, sent, cleanup_runs, dirs, pureVars, video >>

InvalidOutputName ==
    [ status |-> HTTP_400_BAD_REQUEST,
      detail |-> << "Requested output filename is invalid after sanitization." >> ]

\* section 3, lines 106-111: the output name comes from the requested name,
\* or else from the upload's original (unsanitized) name
DetermineOutput(r) ==
    /\ pc[r] = "name"
    /\ LET input_filename_orig ==
               IF file_filename[r] = <<>> THEN DefaultInputName
               ELSE file_filename[r]
           g == generate_output_filename(input_filename_orig,
                                         output_filename[r])
       IN  IF g.ok
           THEN /\ final_output_filename' =
                     [ final_output_filename EXCEPT ![r] = g.name ]
                /\ output_file_path' =
                     [ output_file_path EXCEPT
                         ![r] = path_join(temp_dir_path[r], g.name) ]
                /\ pc' = [ pc EXCEPT ![r] = "split" ]
                /\ UNCHANGED << raised, response >>
           ELSE /\ Raise(r, InvalidOutputName)
                /\ UNCHANGED << final_output_filename, output_file_path >>
    /\ UNCHANGED << lost, file_filename, output_filename, commands,
                    temp_dir_path, background_tasks, input_file_path,
                    command_args, ffmpeg_command, run_calls, process, body,
                    sent, cleanup_runs, diskVars, pureVars, video >>

InvalidCommands(err) ==
    [ status |-> HTTP_400_BAD_REQUEST,
      detail |-> << "Invalid command string format: ", err,
                    ". Ensure proper quoting if needed." >> ]

\* section 4, lines 116-125: the flag string is tested and split
SplitCommands(r) ==
    /\ pc[r] = "split"
    /\ LET parsed == ParseCommands(commands[r])
       IN  IF parsed.ok
           THEN /\ command_args' = [ command_args EXCEPT ![r] = parsed.args ]
                /\ pc' = [ pc EXCEPT ![r] = "run" ]
                /\ UNCHANGED << raised, response >>
           ELSE /\ Raise(r, InvalidCommands(parsed.err))
                /\ UNCHANGED command_args
    /\ UNCHANGED << lost, file_filename, output_filename, commands,
                    temp_dir_path, background_tasks, input_file_path,
                    final_output_filename, output_file_path, ffmpeg_command,
                    run_calls, process, body, sent, cleanup_runs, diskVars,
                    pureVars, video >>

(***************************************************************************)
(* The external tool is opaque: it is missing, cannot be started, or       *)
(* exits with some status and output texts, having written its output file *)
(* or not.                                                                 *)
(***************************************************************************)
\* exit statuses: success, failure, killed by a signal
ExitStatuses == { 0, 1, -9 }

ToolOutcomes ==
    { [ kind |-> k, returncode |-> 0, stdout |-> "", stderr |-> "",
        wrote |-> FALSE ] : k \in { "notfound", "oserror" } }
    \cup
    [ kind : { "exit" }, returncode : ExitStatuses, stdout : StdoutTexts,
      stderr : Texts, wrote : BOOLEAN ]

\* the tool outcomes of the concurrent specification: the tool succeeds
ConcToolOutcomes ==
    [ kind : { "exit" }, returncode : { 0 }, stdout : { "" },
      stderr : { "" }, wrote : BOOLEAN ]

ToolNotFound ==
    [ status |-> HTTP_500_INTERNAL_SERVER_ERROR,
      detail |-> << "FFmpeg command not found on the server. Path used: '",
                    "ffmpeg", "'" >> ]

ToolUnexpected ==
    [ status |-> HTTP_500_INTERNAL_SERVER_ERROR,
      detail |-> << "An unexpected error occurred: ", "OSError" >> ]

ToolFailed(returncode, stdout, stderr) ==
    [ status |-> HTTP_500_INTERNAL_SERVER_ERROR,
      detail |-> ErrorDetail(returncode, stdout, stderr) ]

\* lines 136-170: what subprocess.run(..., check=True) raises for an outcome
ToolRaises(o) ==
    IF o.kind = "notfound" THEN ToolNotFound
    ELSE IF o.kind = "oserror" THEN ToolUnexpected
    ELSE IF o.returncode # 0
         THEN ToolFailed(o.returncode, o.stdout, o.stderr)
    ELSE NoException

\* section 4, lines 127-170: the argument vector is assembled and the tool
\* is run, without a shell
RunFFmpeg(r, T) ==
    /\ pc[r] = "run"
    /\ LET argv == BuildCommand(input_file_path[r], command_args[r],
                                output_file_path[r])
           in == Walk(input_file_path[r], dirs)
           data == IF in.ok /\ in.at \in DOMAIN files
                   THEN ToolData(r, files[in.at]) ELSE ToolData(r, NoData)
           out == argv[Len(argv)]
       IN  /\ ffmpeg_command' = [ ffmpeg_command EXCEPT ![r] = argv ]
           /\ run_calls' = [ run_calls EXCEPT ![r] = @ + 1 ]
           /\ \E o \in T :
                /\ process' = [ process EXCEPT ![r] =
                                  [ kind |-> o.kind,
                                    returncode |-> o.returncode,
                                    stdout |-> o.stdout,
                                    stderr |-> o.stderr ] ]
                /\ files' = IF o.wrote /\ can_write(out, dirs)
                            THEN write_file(out, data, dirs, files)
                            ELSE files
                /\ IF ToolRaises(o) = NoException
                   THEN /\ pc' = [ pc EXCEPT ![r] = "check" ]
                        /\ UNCHANGED << raised, response >>
                   ELSE Raise(r, ToolRaises(o))
    /\ UNCHANGED << lost, file_filename, output_filename, commands,
                    temp_dir_path, background_tasks, input_file_path,
                    final_output_filename, output_file_path, command_args,
                    body, sent, cleanup_runs, dirs, pureVars, video >>

OutputMissing ==
    [ status |-> HTTP_500_INTERNAL_SERVER_ERROR,
      detail |-> << "FFmpeg seemed to complete, but the output file was not found. Check API logs and FFmpeg command." >> ]

\* mutant: the output is taken to be there
OutputFoundAlways(path, ds, fs) == TRUE

\* line 174: os.path.exists(output_file_path)
OutputFound(path, ds, fs) == path_exists(path, ds, fs)

\* section 5, lines 174-192: the output must exist; it is returned as a
\* FileResponse
ReturnFile(r) ==
    /\ pc[r] = "check"
    /\ IF OutputFound(output_file_path[r], dirs, files)
       THEN /\ response' = [ response EXCEPT ![r] =
                               FileResponse(output_file_path[r],
                                            final_output_filename[r]) ]
            /\ pc' = [ pc EXCEPT ![r] = "respond" ]
            /\ UNCHANGED raised
       ELSE Raise(r, OutputMissing)
    /\ UNCHANGED << lost, file_filename, output_filename, commands,
                    temp_dir_path, background_tasks, input_file_path,
                    final_output_filename, output_file_path, command_args,
                    ffmpeg_command, run_calls, process, body, sent,
                    cleanup_runs, diskVars, pureVars, video >>

(***************************************************************************)
(* What the framework does with the handler's result.  BackgroundTasks     *)
(* that the handler filled are attached to the response the handler        *)
(* RETURNS and run after that response was sent; the response made from    *)
(* a raised HTTPException carries no background tasks.                     *)
(***************************************************************************)
\* the tasks the framework runs after sending resp
TasksOfResponse(resp, tasks) ==
    IF resp.kind = "file" THEN tasks ELSE <<>>

\* the error response of a raised HTTPException is sent
SendError(r) ==
    /\ pc[r] = "raised"
    /\ LET after == RunTasks(TasksOfResponse(response[r],
                                             background_tasks[r]),
                             dirs, files)
       IN  /\ dirs' = after.dirs
           /\ files' = after.files
           /\ cleanup_runs' =
                [ cleanup_runs EXCEPT
                    ![r] = @ + Len(TasksOfResponse(response[r],
                                                   background_tasks[r])) ]
    /\ pc' = [ pc EXCEPT ![r] = "done" ]
    /\ UNCHANGED << lost, file_filename, output_filename, commands,
                    temp_dir_path, background_tasks, input_file_path,
                    final_output_filename, output_file_path, command_args,
                    ffmpeg_command, run_calls, process, raised, response,
                    body, sent, pureVars, video >>

ServerError ==
    [ kind |-> "error", status |-> HTTP_500_INTERNAL_SERVER_ERROR,
      detail |-> << "Internal Server Error" >>,
      path |-> <<>>, filename |-> <<>> ]

\* FileResponse starts: the path must be a regular file, else the send
\* fails and nothing of the response, its background included, runs
StartStream(r) ==
    /\ pc[r] = "respond"
    /\ LET w == Walk(response[r].path, dirs)
       IN  IF w.ok /\ w.at \in DOMAIN files
           THEN /\ body' = [ body EXCEPT ![r] = files[w.at] ]
                /\ pc' = [ pc EXCEPT ![r] = "streaming" ]
                /\ UNCHANGED response
           ELSE /\ response' = [ response EXCEPT ![r] = ServerError ]
                /\ pc' = [ pc EXCEPT ![r] = "done" ]
                /\ UNCHANGED body
    /\ UNCHANGED << lost, file_filename, output_filename, commands,
                    temp_dir_path, background_tasks, input_file_path,
                    final_output_filename, output_file_path, command_args,
                    ffmpeg_command, run_calls, process, raised, sent,
                    cleanup_runs, diskVars, pureVars, video >>

\* mutant: a chunk is sent only to a client that is still there
SendChunkNeedsClient(r) ==
    /\ pc[r] = "streaming"
    /\ lost[r] = ""
    /\ sent[r] < MaxChunks
    /\ sent' = [ sent EXCEPT ![r] = @ + 1 ]
    /\ UNCHANGED << pc, lost, file_filename, output_filename, commands,
                    temp_dir_path, background_tasks, input_file_path,
                    final_output_filename, output_file_path, command_args,
                    ffmpeg_command, run_calls, process, raised, response,
                    body, cleanup_runs, diskVars, pureVars, video >>

\* one chunk of the body is handed to the server; a send to a client that
\* has gone is dropped by the server
SendChunk(r) ==
    /\ pc[r] = "streaming"
    /\ sent[r] < MaxChunks
    /\ sent' = [ sent EXCEPT ![r] = @ + 1 ]
    /\ UNCHANGED << pc, lost, file_filename, output_filename, commands,
                    temp_dir_path, background_tasks, input_file_path,
                    final_output_filename, output_file_path, command_args,
                    ffmpeg_command, run_calls, process, raised, response,
                    body, cleanup_runs, diskVars, pureVars, video >>

\* the body is sent: the response's background tasks run
RunBackground(r) ==
    /\ pc[r] = "streaming"
    /\ sent[r] = MaxChunks
    /\ LET tasks == TasksOfResponse(response[r], background_tasks[r])
           after == RunTasks(tasks, dirs, files)
       IN  /\ dirs' = after.dirs
           /\ files' = after.files
           /\ cleanup_runs' = [ cleanup_runs EXCEPT ![r] = @ + Len(tasks) ]
    /\ pc' = [ pc EXCEPT ![r] = "done" ]
    /\ UNCHANGED << lost, file_filename, output_filename, commands,
                    temp_dir_path, background_tasks, input_file_path,
                    final_output_filename, output_file_path, command_args,
                    ffmpeg_command, run_calls, process, raised, response,
                    body, sent, pureVars, video >>

(***************************************************************************)
(* Specifications.                                                         *)
(***************************************************************************)
\* the handler and the sending of its result
Handle(r, T) ==
    \/ CreateTempDir(r)
    \/ SaveUpload(r)
    \/ DetermineOutput(r)
    \/ SplitCommands(r)
    \/ RunFFmpeg(r, T)
    \/ ReturnFile(r)
    \/ SendError(r)
    \/ StartStream(r)
    \/ SendChunk(r)
    \/ RunBackground(r)

\* one request, every kind of input, a client that may leave
Next ==
    \/ Arrive(1, UploadNames, OutputNames, CommandStrings)
    \/ Disconnect(1)
    \/ Abort(1)
    \/ Handle(1, ToolOutcomes)

Spec == Init /\ [][Next]_vars

\* NumReq concurrent requests on one file system
NextConc ==
    \E r \in Reqs :
        \/ Arrive(r, ConcUploadNames, ConcOutputNames, ConcCommandStrings)
        \/ Handle(r, ConcToolOutcomes)

SpecConc == Init /\ [][NextConc]_vars

\* the inputs and tool outcomes of the fair specification: a request that
\* succeeds, one with flags that do not parse, a tool that fails, is
\* missing or writes nothing
FairUploadNames == { << "a", ".", "b" >> }
FairOutputNames == { <<>>, << "a", ".", "c" >> }
FairCommandStrings == { << "-", "a" >>, << "\"", "a" >> }
FairToolOutcomes ==
    { [ kind |-> "notfound", returncode |-> 0, stdout |-> "", stderr |-> "",
        wrote |-> FALSE ] }
    \cup
    [ kind : { "exit" }, returncode : { 0, 1 }, stdout : { "" },
      stderr : { "" }, wrote : BOOLEAN ]

NextFair ==
    \/ Arrive(1, FairUploadNames, FairOutputNames, FairCommandStrings)
    \/ Disconnect(1)
    \/ Abort(1)
    \/ Handle(1, FairToolOutcomes)

\* one request whose every step that is enabled is eventually taken: the
\* handler's code runs on, the tool terminates, the framework sends
SpecFair ==
    /\ Init /\ [][NextFair]_vars
    /\ WF_vars(Handle(1, FairToolOutcomes))
    /\ WF_vars(Abort(1))

\* the sanitizer on every raw name up to MaxNameLen
InitSanitize ==
    /\ InitReqs /\ InitDisk /\ InitVideoOff
    /\ pure_in \in SeqsUpTo(NameChars, MaxNameLen)
    /\ pure_out = <<>>
    /\ pure_pc = "start"
    /\ pure_again = <<>>

ApplySanitize ==
    /\ pure_pc = "start"
    /\ pure_out' = SanitizeChars(pure_in)
    /\ pure_pc' = "done"
    /\ UNCHANGED << pure_in, pure_again, reqVars, diskVars, video >>

\* the sanitizer applied to a sanitized name
SanitizeAgain ==
    /\ pure_pc = "done"
    /\ pure_again' = SanitizeChars(pure_out)
    /\ pure_pc' = "twice"
    /\ UNCHANGED << pure_in, pure_out, reqVars, diskVars, video >>

NextSanitize == ApplySanitize \/ SanitizeAgain

SpecSanitize == InitSanitize /\ [][NextSanitize]_vars

\* generate_output_filename on every upload name up to MaxNameLen and
\* every requested name up to MaxReqLen; the handler never passes an empty
\* upload name (line 86)
InitOutputName ==
    /\ InitReqs /\ InitDisk /\ InitVideoOff
    /\ pure_in \in (SeqsUpTo(NameChars, MaxNameLen) \ { <<>> })
                   \X SeqsUpTo(NameChars, MaxReqLen)
    /\ pure_out = <<>>
    /\ pure_pc = "start"
    /\ pure_again = <<>>

ApplyOutputName ==
    /\ pure_pc = "start"
    /\ pure_out' = generate_output_filename(pure_in[1], pure_in[2])
    /\ pure_pc' = "done"
    /\ UNCHANGED << pure_in, pure_again, reqVars, diskVars, video >>

SpecOutputName == InitOutputName /\ [][ApplyOutputName]_vars

(***************************************************************************)
(* src/app.py: one request to process_video, wrapped by cleanup_files.     *)
(***************************************************************************)
\* the uploads a client can send: no 'file' part, or one with a filename
VideoUploads ==
    { [ has_file |-> FALSE, filename |-> <<>> ] }
    \cup
    [ has_file : { TRUE },
      filename : { <<>>, << "a", ".", "b" >>, << ".", "." >>,
                   << "a", "/", "b" >> } ]

\* form field 'flags' (<<>>: missing or ""): blank, plain, an unbalanced
\* quote, a trailing escape
VideoFlags ==
    { <<>>, << " " >>, << "-", "a" >>, << "\"", "a" >>, << "a", "\\" >> }

\* form field 'output_filename' (<<>>: missing or "")
VideoOutputNames ==
    { <<>>, << "a", ".", "b" >>, << ".", ".", "/", "c" >> }

VideoToolOutcomes ==
    { [ kind |-> "notfound", returncode |-> 0, stdout |-> "", stderr |-> "",
        wrote |-> FALSE ] }
    \cup
    [ kind : { "exit" }, returncode : { 0, 1 }, stdout : { "" },
      stderr : Texts, wrote : BOOLEAN ]

\* the server was started in the application's directory, where the
\* import created the upload folder
InitVideo ==
    /\ InitReqs /\ InitPureOff /\ InitVideoOff
    /\ dirs = { <<>>, TmpRootAt, Cwd, UploadsAt }
    /\ files = << >>

\* a request reaches the route
VideoArrive ==
    /\ video.pc = "off"
    /\ \E u \in VideoUploads, fl \in VideoFlags, o \in VideoOutputNames :
        video' = [ video EXCEPT !.pc = "validate",
                                !.has_file = u.has_file,
                                !.filename = u.filename,
                                !.ffmpeg_flags = fl,
                                !.output_filename = o ]
    /\ UNCHANGED << reqVars, diskVars, pureVars >>

\* lines 78-97: the four tests, each returning 400
ValidateRequest ==
    /\ video.pc = "validate"
    /\ video' =
         IF EarlyReturn(video) # ""
         THEN [ video EXCEPT
                  !.response = jsonify(EarlyReturn(video), "",
                                       HTTP_400_BAD_REQUEST),
                  !.pc = "cleanup" ]
         ELSE [ video EXCEPT !.pc = "paths" ]
    /\ UNCHANGED << reqVars, diskVars, pureVars >>

\* lines 101-110: the two temporary paths are made and put on the list
GeneratePaths ==
    /\ video.pc = "paths"
    /\ LET input_filename ==
               secure_filename(<< uuid4(1), "_" >> \o video.filename)
           temp_output_filename ==
               secure_filename(<< uuid4(2), "_" >> \o video.output_filename)
           input_path == path_join(UPLOAD_FOLDER, input_filename)
           output_path == path_join(UPLOAD_FOLDER, temp_output_filename)
       IN  video' = [ video EXCEPT
                        !.input_path = input_path,
                        !.output_path = output_path,
                        !.temp_files = Register(@, input_path, output_path),
                        !.pc = "save" ]
    /\ UNCHANGED << reqVars, diskVars, pureVars >>

\* lines 146-148: except Exception as e: return jsonify(error=str(e)), 500
VideoExcept(v, text) ==
    [ v EXCEPT !.response = jsonify(text, "", HTTP_500_INTERNAL_SERVER_ERROR),
               !.pc = "cleanup" ]

\* line 113: file.save(input_path)
SaveFile ==
    /\ video.pc = "save"
    /\ \E ioerror \in BOOLEAN :
        IF can_write(video.input_path, dirs) /\ ~ ioerror
        THEN /\ files' = write_file(video.input_path, UploadData(1),
                                    dirs, files)
             /\ video' = [ video EXCEPT !.pc = "run" ]
        ELSE /\ video' = VideoExcept(video, "OSError")
             /\ UNCHANGED files
    /\ UNCHANGED << reqVars, dirs, pureVars >>

ProcessingFailed == "FFmpeg processing failed"

\* lines 117-134: the command string is built and split, the tool is run;
\* the tool writes, if it does, to the last word of its command line
RunTool ==
    /\ video.pc = "run"
    /\ LET sp == shlex_split(base_command(video.input_path,
                                          video.ffmpeg_flags,
                                          video.output_path))
           out == sp.args[Len(sp.args)]
       IN  IF ~ sp.ok
           THEN /\ video' = VideoExcept(video, sp.err)
                /\ UNCHANGED files
           ELSE \E o \in VideoToolOutcomes :
                  LET called == [ video EXCEPT !.command = sp.args,
                                               !.run_calls = @ + 1 ]
                      ended == [ called EXCEPT
                                   !.process = [ kind |-> o.kind,
                                                 returncode |-> o.returncode,
                                                 stdout |-> o.stdout,
                                                 stderr |-> o.stderr ] ]
                  IN  /\ o.wrote => can_write(out, dirs)
                      /\ files' = IF o.wrote
                                  THEN write_file(out, ToolData(1, UploadData(1)),
                                                  dirs, files)
                                  ELSE files
                      /\ video' =
                           IF o.kind = "notfound"
                           THEN VideoExcept(called, "FileNotFoundError")
                           ELSE IF o.returncode # 0
                           THEN [ ended EXCEPT
                                    !.response =
                                       jsonify(ProcessingFailed, o.stderr,
                                               HTTP_500_INTERNAL_SERVER_ERROR),
                                    !.pc = "cleanup" ]
                           ELSE [ ended EXCEPT !.pc = "send" ]
    /\ UNCHANGED << reqVars, dirs, pureVars >>

\* lines 140-144: send_file stats and opens output_path; the response
\* holds the open file, whose bytes are read when the body is sent
SendFile ==
    /\ video.pc = "send"
    /\ LET w == Walk(video.output_path, dirs)
       IN  video' =
             IF w.ok /\ w.at \in DOMAIN files
             THEN [ video EXCEPT
                      !.response = [ status |-> HTTP_200_OK, error |-> "",
                                     details |-> "", file |-> files[w.at],
                                     download_name |-> video.output_filename ],
                      !.pc = "cleanup" ]
             ELSE VideoExcept(video, "FileNotFoundError")
    /\ UNCHANGED << reqVars, diskVars, pureVars >>

\* lines 58-66: the loop over temp_files, for the paths whose os.remove
\* fails being those at the indices in fails
RECURSIVE RemoveEach(_, _, _, _, _)
RemoveEach(temp_files, i, fails, ds, acc) ==
    IF i > Len(temp_files) THEN acc
    ELSE LET w == Walk(temp_files[i], ds)
             there == w.ok /\ w.at \in DOMAIN acc.files
         IN  IF ~ there THEN RemoveEach(temp_files, i + 1, fails, ds, acc)
             ELSE IF i \in fails
             THEN RemoveEach(temp_files, i + 1, fails, ds,
                             [ acc EXCEPT !.errors = @ + 1 ])
             ELSE RemoveEach(temp_files, i + 1, fails, ds,
                             [ files |-> [ q \in DOMAIN acc.files \ { w.at }
                                             |-> acc.files[q] ],
                               removed |-> Append(acc.removed, temp_files[i]),
                               errors |-> acc.errors ])

\* lines 56-67: the finally of the cleanup_files wrapper, run when
\* process_video returns
CleanupFiles ==
    /\ video.pc = "cleanup"
    /\ \E fails \in SUBSET (1..Len(video.temp_files)) :
        LET after == RemoveEach(video.temp_files, 1, fails, dirs,
                                [ files |-> files, removed |-> <<>>,
                                  errors |-> 0 ])
        IN  /\ files' = after.files
            /\ video' = [ video EXCEPT !.removed = after.removed,
                                       !.remove_errors = after.errors,
                                       !.pc = "transmit" ]
    /\ UNCHANGED << reqVars, dirs, pureVars >>

\* the WSGI server sends the response the wrapped view returned: status,
\* and the body, read from the open file for a file response
Transmit ==
    /\ video.pc = "transmit"
    /\ video' = [ video EXCEPT !.received = video.response, !.pc = "done" ]
    /\ UNCHANGED << reqVars, diskVars, pureVars >>

NextVideo ==
    \/ VideoArrive
    \/ ValidateRequest
    \/ GeneratePaths
    \/ SaveFile
    \/ RunTool
    \/ SendFile
    \/ CleanupFiles
    \/ Transmit

SpecVideo == InitVideo /\ [][NextVideo]_vars

(***************************************************************************)
(* Claims.                                                                 *)
(***************************************************************************)
\* the request is over: its response was sent, or it was given up
Finished(r) == pc[r] = "done"

\* the handler of r created a workspace
WorkspaceCreated(r) == temp_dir_path[r] # <<>>

WorkspaceOnDisk(r) ==
    WorkspaceCreated(r) /\ path_exists(temp_dir_path[r], dirs, files)

\* C1: after any response, success or error, of a request whose handler
\* created a workspace, that workspace no longer exists on disk.
C1_WorkspaceGoneAfterResponse ==
    \A r \in Reqs :
        Finished(r) /\ WorkspaceCreated(r) => ~ WorkspaceOnDisk(r)

\* the flag string is empty, blank or wrongly quoted
BadFlags(c) == c = <<>> \/ isspace(c) \/ ~ shlex_split(c).ok

\* the handler of r got as far as the flag string and rejected it
FlagsRejected(r) ==
    /\ BadFlags(commands[r])
    /\ raised[r] = InvalidCommands(ParseCommands(commands[r]).err)

\* C2: a request whose flag string is empty, blank or wrongly quoted ends
\* with status 400 as the client sees it, and the tool is never run.
C2_BadFlagsEndWith400 ==
    \A r \in Reqs :
        FlagsRejected(r) =>
            /\ response[r].status = HTTP_400_BAD_REQUEST
            /\ run_calls[r] = 0

\* path p denotes a file directly inside the directory ws
DirectlyInside(p, ws) ==
    LET w == Walk(p, dirs)
    IN  /\ w.ok
        /\ w.at # Walk(ws, dirs).at
        /\ Parent(w.at) = Walk(ws, dirs).at

\* C3: the input path and the output path handed to the tool both denote
\* files directly inside the request's own workspace, whatever the upload
\* name and the requested output name.
C3_PathsInsideWorkspace ==
    \A r \in Reqs :
        run_calls[r] > 0 /\ WorkspaceOnDisk(r) =>
            /\ DirectlyInside(ffmpeg_command[r][3], temp_dir_path[r])
            /\ DirectlyInside(ffmpeg_command[r][Len(ffmpeg_command[r])],
                              temp_dir_path[r])

\* C4: a file response is produced only after the tool exited with status
\* 0 and the output path was found to exist by the check after the run;
\* when the tool exited 0 and the output path does not exist at that check,
\* the request gets a 500 error and no file.
C4_FileOnlyWhenVerified ==
    /\ [](\A r \in Reqs :
            response[r].kind = "file" =>
                process[r].kind = "exit" /\ process[r].returncode = 0)
    /\ [][\A r \in Reqs :
            pc[r] = "check" /\ pc'[r] # "check" =>
                /\ process[r].kind = "exit" /\ process[r].returncode = 0
                /\ IF path_exists(output_file_path[r], dirs, files)
                   THEN response'[r].kind = "file"
                   ELSE /\ response'[r].kind = "error"
                        /\ response'[r].status
                             = HTTP_500_INTERNAL_SERVER_ERROR
                        /\ pc'[r] = "raised"]_vars

C4_Witness ==
    \E r \in Reqs :
        /\ process[r].kind = "exit" /\ process[r].returncode = 0
        /\ ~ path_exists(output_file_path[r], dirs, files)
        /\ raised[r] = OutputMissing
        /\ response[r].kind = "error"
        /\ Finished(r)

\* piece t is part of the detail d
Contains(d, t) == \E i \in 1..Len(d) : d[i] = t

\* the diagnostic of a failed run: stderr, else stdout, else a fixed text
Diagnostic(p) ==
    IF p.stderr # "" THEN p.stderr
    ELSE IF p.stdout # "" THEN p.stdout ELSE NoOutputCaptured

ToolExitedNonZero(r) == process[r].kind = "exit" /\ process[r].returncode # 0

\* C5: when the tool exits with a non-zero status the request ends with
\* status 500, the detail sent to the client contains the captured stderr,
\* or the captured stdout when stderr is empty, or a generic text when both
\* are, and no file is returned.
C5_ToolFailureGives500WithDiagnostic ==
    \A r \in Reqs :
        ToolExitedNonZero(r) =>
            /\ response[r].kind = "error"
            /\ response[r].status = HTTP_500_INTERNAL_SERVER_ERROR
            /\ Contains(response[r].detail, Diagnostic(process[r]))
            /\ pc[r] \in { "raised", "done" }

C5_Witness ==
    \E r \in Reqs :
        /\ ToolExitedNonZero(r)
        /\ process[r].stderr # "" /\ process[r].stdout # ""
        /\ Contains(response[r].detail, process[r].stderr)
        /\ Finished(r)

\* C6: the assembled argument vector holds the input flag "-i" at its
\* fixed place before the user's flags and nowhere else.
C6_InputFlagOnlyAtFixedPlace ==
    \A r \in Reqs :
        run_calls[r] > 0 =>
            \A i \in 1..Len(ffmpeg_command[r]) :
                ffmpeg_command[r][i] = InputFlag => i = 2

\* C7: the sanitized name of every raw name contains no "/" and no ".."
C7_SanitizedHasNoSeparatorNoDotDot ==
    pure_pc = "done" =>
        /\ ~ HasInfix(pure_out, << "/" >>)
        /\ ~ HasInfix(pure_out, DotDot)

\* the client left while the upload was read or the result was streamed
LeftMidTransfer(r) == lost[r] \in { "receiving", "save", "streaming" }

\* C8: when the client disconnects while the upload is read or while the
\* result is streamed, the workspace is still removed.
C8_CleanupDespiteDisconnect ==
    \A r \in Reqs :
        Finished(r) /\ LeftMidTransfer(r) /\ WorkspaceCreated(r) =>
            ~ WorkspaceOnDisk(r)

\* the workspace of r is in use: created and not yet cleaned up
WorkspaceLive(r) == WorkspaceCreated(r) /\ cleanup_runs[r] = 0

\* the file a path denotes
Denoted(p) == Walk(p, dirs).at

\* C9: concurrent requests have pairwise distinct workspaces, input files
\* and output files, and each request is answered with the output made
\* from its own upload.
C9_RequestsNeverCollide ==
    \A r1 \in Reqs, r2 \in Reqs :
        r1 # r2 =>
            /\ (WorkspaceLive(r1) /\ WorkspaceLive(r2) =>
                    /\ temp_dir_path[r1] # temp_dir_path[r2]
                    /\ (input_file_path[r1] # <<>>
                        /\ input_file_path[r2] # <<>> =>
                            Denoted(input_file_path[r1])
                                # Denoted(input_file_path[r2]))
                    /\ (output_file_path[r1] # <<>>
                        /\ output_file_path[r2] # <<>> =>
                            Denoted(output_file_path[r1])
                                # Denoted(output_file_path[r2])))
            /\ (pc[r1] = "streaming" =>
                    body[r1] = ToolData(r1, UploadData(r1)))

\* C10: the argument vector given to subprocess.run is the tool path, "-i",
\* the input path, the tokens of the flag string in their order, and the
\* output path last.
C10_ArgumentVectorShape ==
    \A r \in Reqs :
        run_calls[r] > 0 =>
            LET argv == ffmpeg_command[r]
                tokens == shlex_split(commands[r]).args
            IN  /\ Len(argv) = Len(tokens) + 4
                /\ argv[1] = FFMPEG_PATH
                /\ argv[2] = InputFlag
                /\ argv[3] = input_file_path[r]
                /\ \A i \in 1..Len(tokens) : argv[3 + i] = tokens[i]
                /\ argv[Len(argv)] = output_file_path[r]

C10_Witness ==
    \E r \in Reqs :
        /\ run_calls[r] > 0
        /\ Len(shlex_split(commands[r]).args) = 2
        /\ Len(ffmpeg_command[r]) = 6

\* the part of n from its last dot on, empty when n has no dot
LastDotSuffix(n) ==
    IF RFind(n, ".") = 0 THEN <<>> ELSE SubSeq(n, RFind(n, "."), Len(n))

\* C11 as stated: the requested name, when given, is returned sanitized;
\* otherwise the result is base + "_transformed" + extension, the extension
\* being the upload name's last dot-suffix.
C11_OutputNameByLastDotSuffix ==
    pure_pc = "done" =>
        LET n == pure_in[1]
            e == LastDotSuffix(n)
        IN  /\ pure_out.ok
            /\ pure_out.name =
                 IF pure_in[2] # <<>> THEN SanitizeChars(pure_in[2])
                 ELSE SubSeq(n, 1, Len(n) - Len(e)) \o Transformed \o e

\* an extension of n starts at k: a dot, followed by neither a dot nor a
\* separator, and preceded in its own path component by a character that
\* is not a dot
ExtensionAt(n, k) ==
    /\ n[k] = "."
    /\ \A j \in (k + 1)..Len(n) : n[j] \notin { ".", "/" }
    /\ \E j \in 1..(k - 1) :
            n[j] # "." /\ \A m \in j..(k - 1) : n[m] # "/"

\* C11 amended: the extension is the last dot-suffix of the last path
\* component, and only when a character other than a dot precedes that dot
\* in the component; otherwise the whole name is the base.
C11_OutputNameBySplitext ==
    pure_pc = "done" =>
        LET n == pure_in[1]
        IN  /\ pure_out.ok
            /\ pure_out.name =
                 IF pure_in[2] # <<>> THEN SanitizeChars(pure_in[2])
                 ELSE IF \E k \in 1..Len(n) : ExtensionAt(n, k)
                      THEN LET k == CHOOSE k \in 1..Len(n) : ExtensionAt(n, k)
                           IN  SubSeq(n, 1, k - 1) \o Transformed
                                   \o SubSeq(n, k, Len(n))
                      ELSE n \o Transformed

C11_Witness ==
    /\ pure_pc = "done"
    /\ pure_in = << << ".", "a" >>, <<>> >>
    /\ pure_out.name = << ".", "a" >> \o Transformed

\* C15: sanitizing is idempotent: the sanitized form of a sanitized name
\* is that name.
C15_SanitizeIdempotent ==
    pure_pc = "twice" => pure_again = pure_out

C15_Witness ==
    /\ pure_pc = "twice"
    /\ pure_in = << "a", "/", " " >>
    /\ pure_out = << "a", "_", "_" >>
    /\ pure_again = pure_out

\* C16: in every tool invocation the output path differs from the input
\* path.
C16_OutputPathDiffersFromInput ==
    \A r \in Reqs :
        run_calls[r] > 0 =>
            ffmpeg_command[r][Len(ffmpeg_command[r])] # ffmpeg_command[r][3]

\* the steps a request can take from each place
StepsFrom(p) ==
    IF p = "idle" THEN { "receiving" }
    ELSE IF p = "receiving" THEN { "save", "raised", "done" }
    ELSE IF p = "save" THEN { "name", "raised" }
    ELSE IF p = "name" THEN { "split", "raised" }
    ELSE IF p = "split" THEN { "run", "raised" }
    ELSE IF p = "run" THEN { "check", "raised" }
    ELSE IF p = "check" THEN { "respond", "raised" }
    ELSE IF p = "respond" THEN { "streaming", "done" }
    ELSE IF p \in { "streaming", "raised" } THEN { "done" }
    ELSE { }

\* the upload of r is in its input file
InputSaved(r) ==
    LET w == Walk(input_file_path[r], dirs)
    IN  /\ input_file_path[r] # <<>>
        /\ w.ok /\ w.at \in DOMAIN files
        /\ files[w.at] = UploadData(r)

\* C17: a request takes the steps workspace opened, input saved, output
\* name resolved, flags parsed, tool run, output verified, response
\* streamed in this order and none twice; the tool is run at most once, only
\* with the input saved and the flags parsed without error; after an error
\* was raised no step of the handler runs.
C17_StepsInOrderToolOnce ==
    /\ [](\A r \in Reqs :
            /\ run_calls[r] <= 1
            /\ (run_calls[r] > 0 =>
                    /\ ~ BadFlags(commands[r])
                    /\ command_args[r] = shlex_split(commands[r]).args))
    /\ [][\A r \in Reqs :
            /\ (pc'[r] # pc[r] => pc'[r] \in StepsFrom(pc[r]))
            /\ (run_calls'[r] # run_calls[r] =>
                    pc[r] = "run" /\ InputSaved(r))
            /\ (pc[r] = "raised" =>
                    /\ run_calls'[r] = run_calls[r]
                    /\ response'[r] = response[r]
                    /\ raised'[r] = raised[r]
                    /\ files' = files)]_vars

C17_Witness ==
    \E r \in Reqs :
        /\ Finished(r)
        /\ run_calls[r] = 1
        /\ response[r].kind = "file"
        /\ sent[r] = MaxChunks

\* the paths mkdtemp can return
WorkspacePaths == { TmpRoot \o << "/", n >> : n \in WsNames }

\* cleanup_temp_dir run twice on p leaves what one run leaves, and a run
\* on an absent p leaves the disk as it is
CleanupIdempotent(p) ==
    LET once == cleanup_temp_dir(p, dirs, files)
        twice == cleanup_temp_dir(p, once.dirs, once.files)
    IN  /\ twice = once
        /\ ~ path_exists(p, once.dirs, once.files)
        /\ (~ path_exists(p, dirs, files) =>
                once = [ dirs |-> dirs, files |-> files ])

\* C19: the cleanup task is added exactly once for a request that created
\* a workspace (never a second time on the error path), it runs at most
\* once, and cleanup_temp_dir is idempotent: on an absent path it changes
\* nothing.
C19_CleanupOnceAndIdempotent ==
    \A r \in Reqs :
        /\ background_tasks[r] =
             IF WorkspaceCreated(r) THEN << temp_dir_path[r] >> ELSE <<>>
        /\ cleanup_runs[r] <= 1
        /\ \A p \in WorkspacePaths : CleanupIdempotent(p)

C19_Witness ==
    \E r \in Reqs :
        /\ Finished(r)
        /\ raised[r] = NoException
        /\ cleanup_runs[r] = 1
        /\ WorkspaceCreated(r) /\ ~ WorkspaceOnDisk(r)
        /\ CleanupIdempotent(temp_dir_path[r])

\* the handler of r was entered and the request is not over
InHandling(r) == pc[r] \notin { "idle", "receiving", "done" }

\* C20: provided the tool terminates, a request whose handler was entered
\* ends with exactly one outcome, a file response or an error response,
\* which then stays; the only way past the tool run is the tool's end.
C20_EveryRequestEnds ==
    /\ \A r \in Reqs :
         InHandling(r) ~>
            (Finished(r) /\ response[r].kind \in { "file", "error" })
    /\ [][\A r \in Reqs :
            /\ (Finished(r) =>
                    pc'[r] = pc[r] /\ response'[r] = response[r])
            /\ (pc[r] = "run" /\ pc'[r] # "run" =>
                    /\ run_calls'[r] = run_calls[r] + 1
                    /\ process'[r].kind # "none")]_vars

C20_Witness ==
    \E r \in Reqs :
        /\ Finished(r)
        /\ lost[r] = "streaming"
        /\ process[r].kind = "exit"
        /\ response[r].kind = "file"

\* the request got its response
VideoDone == video.pc = "done"

\* C12: in src/app.py a 'flags' value that is empty, blank or malformed
\* (unbalanced quoting) ends with status 400, the tool never launched.
C12_BadFlagsEndWith400NoLaunch ==
    /\ (video.pc \notin { "off", "validate" } /\ EarlyReturn(video) = ""
        /\ BadFlags(video.ffmpeg_flags)
            => video.run_calls = 0)
    /\ (VideoDone /\ BadFlags(video.ffmpeg_flags)
            => video.received.status = HTTP_400_BAD_REQUEST)

\* C13: the output file is never removed before the success response
\* carrying it has been sent.
C13_OutputKeptUntilSent ==
    video.response.status = HTTP_200_OK /\ ~ VideoDone
        => path_exists(video.output_path, dirs, files)

\* one of the four tests of lines 78-97 fails for the request
Incomplete(v) ==
    \/ ~ v.has_file
    \/ v.filename = <<>>
    \/ v.ffmpeg_flags = <<>>
    \/ v.output_filename = <<>>

\* C14: a request with no 'file' part, an empty upload filename, no
\* 'flags' or no 'output_filename' ends with status 400 and an 'error'
\* field, no temp path generated or written, the tool not launched.
C14_IncompleteRequestGets400 ==
    video.pc \notin { "off", "validate" } /\ Incomplete(video) =>
        /\ video.response.status = HTTP_400_BAD_REQUEST
        /\ video.response.error # ""
        /\ VideoDone => video.received = video.response
        /\ video.input_path = <<>> /\ video.output_path = <<>>
        /\ video.temp_files = <<>>
        /\ video.run_calls = 0
        /\ files = << >>

C14_Witness ==
    /\ VideoDone
    /\ video.has_file /\ video.filename # <<>> /\ video.ffmpeg_flags # <<>>
    /\ video.output_filename = <<>>
    /\ video.received.status = HTTP_400_BAD_REQUEST
    /\ video.received.error = NoOutputFilenameProvided

\* the files in the upload folder
InUploads == { q \in DOMAIN files : IsUnder(q, UploadsAt) }

\* C18: both temp paths are on temp_files before either file is written,
\* and on every exit path, once the cleanup_files wrapper has finished,
\* neither temp file exists, provided os.remove did not fail.
C18_TempFilesRegisteredThenRemoved ==
    /\ [](/\ InUploads # { } =>
               video.temp_files = << video.input_path, video.output_path >>
          /\ (video.pc \in { "transmit", "done" }
              /\ video.remove_errors = 0 =>
                 /\ \A i \in 1..Len(video.temp_files) :
                       ~ path_exists(video.temp_files[i], dirs, files)
                 /\ InUploads = { }))
    /\ [][files' # files /\ video.pc # "cleanup" =>
            /\ video.input_path # <<>> /\ video.output_path # <<>>
            /\ video.temp_files = << video.input_path, video.output_path >>
         ]_vars

C18_Witness ==
    /\ VideoDone
    /\ video.received.status = HTTP_200_OK
    /\ video.removed = << video.input_path, video.output_path >>
    /\ video.remove_errors = 0
    /\ ~ path_exists(video.input_path, dirs, files)
    /\ ~ path_exists(video.output_path, dirs, files)

=============================================================================
